---- MODULE Spec2Model ----
(***************************************************************************)
(* Model of the media-transfer operations of the wapi client library:      *)
(* MediaManager (GetMediaUrlById, DeleteMedia, UploadMedia and the          *)
(* resumable upload protocol CreateResumableUploadSession /                 *)
(* UploadResumableMedia / UploadMediaForTemplate).                          *)
(*                                                                          *)
(* Strings the code builds or takes apart (paths, header values, file      *)
(* names, identifiers) are sequences of one-character strings, so that      *)
(* strings.Join, strconv.FormatInt and filepath.Base are computed as the    *)
(* code computes them.  A response body is the JSON document the remote     *)
(* sent; json.Unmarshal is modelled by what encoding/json does with it.     *)
(***************************************************************************)
EXTENDS Integers, Sequences, FiniteSets, TLC

VARIABLES
    issued,    \* remote: upload-session ids the remote has handed out
    pushes,    \* remote: pushes received per upload session it has handed out
    deleted,   \* remote: media ids the remote has deleted
    inflight,  \* per caller: position inside UploadMediaForTemplate
    last,      \* record of the call that returned most recently
    script,    \* mock transport: the responses it replays, in order
    runs,      \* mock transport: results of the composed and the manual run
    assets,    \* remote: the flow document stored for each flow id
    uploaded,  \* the payloads transferred so far under each upload protocol
    flowMsg    \* the FlowMessage under construction and how it was made

vars ==
    <<issued, pushes, deleted, inflight, last, script, runs, assets, uploaded,
      flowMsg>>

(***************************************************************************)
(* Bounds of the model.                                                     *)
(***************************************************************************)
MaxPayloadLen == 1      \* payloads are byte strings of at most this length
NumSessions == 2        \* upload-session ids the remote can hand out
NumMedia == 2           \* media ids known to the remote
MaxPushes == 2          \* pushes counted per session id
MaxErrors == 2          \* validation errors in one response

(***************************************************************************)
(* Strings.                                                                 *)
(***************************************************************************)
Digits == <<"0", "1", "2", "3", "4", "5", "6", "7", "8", "9">>

RECURSIVE FormatNat(_)
FormatNat(n) ==
    IF n < 10 THEN <<Digits[n + 1]>>
    ELSE FormatNat(n \div 10) \o <<Digits[(n % 10) + 1]>>

\* strconv.FormatInt(n, 10)
FormatInt(n) == IF n < 0 THEN <<"-">> \o FormatNat(-n) ELSE FormatNat(n)

RECURSIVE Join(_, _)
\* strings.Join(elems, sep)
Join(elems, sep) ==
    IF Len(elems) = 0 THEN <<>>
    ELSE IF Len(elems) = 1 THEN elems[1]
    ELSE elems[1] \o sep \o Join(Tail(elems), sep)

Slash == <<"/">>

RECURSIVE StripTrailingSlashes(_)
StripTrailingSlashes(s) ==
    IF Len(s) > 0 /\ s[Len(s)] = "/"
    THEN StripTrailingSlashes(SubSeq(s, 1, Len(s) - 1))
    ELSE s

RECURSIVE AfterLastSlash(_)
AfterLastSlash(s) ==
    IF \E i \in 1..Len(s) : s[i] = "/"
    THEN AfterLastSlash(Tail(s))
    ELSE s

\* filepath.Base(path)
Base(path) ==
    IF Len(path) = 0 THEN <<".">>
    ELSE LET stripped == StripTrailingSlashes(path)
         IN IF Len(stripped) = 0 THEN Slash ELSE AfterLastSlash(stripped)

Str_media == <<"m", "e", "d", "i", "a">>
Str_uploads == <<"u", "p", "l", "o", "a", "d", "s">>

(***************************************************************************)
(* JSON documents and json.Unmarshal into a struct.                         *)
(***************************************************************************)
Fields ==
    {"id", "h", "url", "success", "file_size", "mime_type", "sha256",
     "messaging_product"}

Absent == [t |-> "absent", s |-> <<>>, b |-> FALSE]
JNull == [t |-> "null", s |-> <<>>, b |-> FALSE]
JNum == [t |-> "number", s |-> <<>>, b |-> FALSE]
JStr(s) == [t |-> "string", s |-> s, b |-> FALSE]
JBool(b) == [t |-> "bool", s |-> <<>>, b |-> b]

NoFields == [f \in Fields |-> Absent]
Malformed == [k |-> "malformed", obj |-> NoFields]
NullBody == [k |-> "null", obj |-> NoFields]
ArrayBody == [k |-> "array", obj |-> NoFields]
EmptyObject == [k |-> "object", obj |-> NoFields]
\* the JSON object whose members are those of the function fs
Obj(fs) ==
    [k |-> "object",
     obj |-> [f \in Fields |-> IF f \in DOMAIN fs THEN fs[f] ELSE Absent]]

ZeroOf(type) == IF type = "bool" THEN JBool(FALSE)
                ELSE IF type = "number" THEN JNum
                ELSE JStr(<<>>)

\* json.Unmarshal(body, &v) for a struct v whose json-tagged fields are the
\* domain of schema: a syntax error or a non-object document is an error, a
\* JSON null leaves v zero, an absent or null member leaves its field zero,
\* and a member of another type is an UnmarshalTypeError.
Unmarshal(body, schema) ==
    LET zero == [f \in DOMAIN schema |-> ZeroOf(schema[f])]
    IN  IF body.k \in {"malformed", "array"} THEN [err |-> TRUE, val |-> zero]
        ELSE IF body.k = "null" THEN [err |-> FALSE, val |-> zero]
        ELSE [err |-> \E f \in DOMAIN schema :
                          body.obj[f].t \notin {"absent", "null", schema[f]},
              val |-> [f \in DOMAIN schema |->
                          IF body.obj[f].t = schema[f] THEN body.obj[f]
                          ELSE ZeroOf(schema[f])]]

MediaMetadata ==
    [messaging_product |-> "string", url |-> "string", mime_type |-> "string",
     sha256 |-> "string", file_size |-> "number", id |-> "string"]
DeleteSuccessResponse == [success |-> "bool"]
UploadMediaResult == [id |-> "string"]
ResumableUploadSession == [id |-> "string"]
ResumableUploadResult == [h |-> "string"]

(***************************************************************************)
(* Errors and requests.                                                     *)
(***************************************************************************)
\* a Go error: what failed, the status code and raw body it quotes (if any)
\* and the messages it was wrapped in, outermost first
NoRaw == [k |-> "none"]
NoErr == [kind |-> "nil", status |-> 0, raw |-> NoRaw, quotes |-> FALSE,
          ctx |-> <<>>]
Err(kind, msg) ==
    [kind |-> kind, status |-> 0, raw |-> NoRaw, quotes |-> FALSE,
     ctx |-> <<msg>>]
ErrBody(kind, msg, status, raw) ==
    [kind |-> kind, status |-> status, raw |-> raw, quotes |-> TRUE,
     ctx |-> <<msg>>]
\* fmt.Errorf(msg + ": %w", err)
Wrap(msg, err) == [err EXCEPT !.ctx = <<msg>> \o @]
IsErr(e) == e.kind # "nil"

\* the transport's own error, returned by Execute / RequestMultipart / Do
TransportErr ==
    [kind |-> "transport", status |-> 0, raw |-> NoRaw, quotes |-> FALSE,
     ctx |-> <<>>]

\* what a call hands back: the requests it issued, its value and its error
Outcome(reqs, val, err) == [reqs |-> reqs, val |-> val, err |-> err]

NoBody == [enc |-> "none"]
ApiRequest(path, method, body) ==
    [via |-> "Execute", method |-> method, path |-> path, body |-> body,
     headers |-> <<>>]
MultipartRequest(path, method, parts) ==
    [via |-> "RequestMultipart", method |-> method, path |-> path,
     body |-> [enc |-> "multipart", parts |-> parts], headers |-> <<>>]

\* what Execute / RequestMultipart return: a transport error or the raw body
TransportFailure == [err |-> TRUE, body |-> Malformed]
Reply(body) == [err |-> FALSE, body |-> body]

(***************************************************************************)
(* MediaManager: each method as a function of its arguments and of the      *)
(* response the transport hands back.                                       *)
(***************************************************************************)
\* GetMediaUrlById without its check of an empty url
GetMediaUrlById_NoUrlCheck(id, resp) ==
    LET req == ApiRequest(id, "GET", NoBody)
        res == Unmarshal(resp.body, MediaMetadata)
    IN  IF resp.err THEN Outcome(<<req>>, <<>>, TransportErr)
        ELSE IF res.err
        THEN Outcome(<<req>>, <<>>,
                     Err("decode", "failed to parse media metadata"))
        ELSE Outcome(<<req>>, res.val.url.s, NoErr)

GetMediaUrlById(id, resp) ==
    LET req == ApiRequest(id, "GET", NoBody)
        res == Unmarshal(resp.body, MediaMetadata)
    IN  IF resp.err THEN Outcome(<<req>>, <<>>, TransportErr)
        ELSE IF res.err
        THEN Outcome(<<req>>, <<>>,
                     Err("decode", "failed to parse media metadata"))
        ELSE IF res.val.url.s = <<>>
        THEN Outcome(<<req>>, <<>>,
                     ErrBody("missing", "no media url found in response", 0,
                             resp.body))
        ELSE Outcome(<<req>>, res.val.url.s, NoErr)

Str_deleted == <<"media deleted successfully">>

\* DeleteMedia without its check of the success flag
DeleteMedia_IgnoresFlag(id, resp) ==
    LET req == ApiRequest(Join(<<Str_media, id>>, Slash), "DELETE", NoBody)
        res == Unmarshal(resp.body, DeleteSuccessResponse)
    IN  IF resp.err THEN Outcome(<<req>>, <<>>, TransportErr)
        ELSE IF res.err
        THEN Outcome(<<req>>, <<>>,
                     Err("decode", "failed to parse delete response"))
        ELSE Outcome(<<req>>, Str_deleted, NoErr)

\* DeleteMedia that does not return the transport's error
DeleteMedia_DropsTransportError(id, resp) ==
    LET req == ApiRequest(Join(<<Str_media, id>>, Slash), "DELETE", NoBody)
        res == Unmarshal(resp.body, DeleteSuccessResponse)
    IN  IF ~resp.err /\ res.err
        THEN Outcome(<<req>>, <<>>,
                     Err("decode", "failed to parse delete response"))
        ELSE IF ~resp.err /\ ~res.val.success.b
        THEN Outcome(<<req>>, <<>>,
                     ErrBody("rejected",
                             "media deletion failed or returned success=false",
                             0, resp.body))
        ELSE Outcome(<<req>>, Str_deleted, NoErr)

DeleteMedia(id, resp) ==
    LET req == ApiRequest(Join(<<Str_media, id>>, Slash), "DELETE", NoBody)
        res == Unmarshal(resp.body, DeleteSuccessResponse)
    IN  IF resp.err THEN Outcome(<<req>>, <<>>, TransportErr)
        ELSE IF res.err
        THEN Outcome(<<req>>, <<>>,
                     Err("decode", "failed to parse delete response"))
        ELSE IF ~res.val.success.b
        THEN Outcome(<<req>>, <<>>,
                     ErrBody("rejected",
                             "media deletion failed or returned success=false",
                             0, resp.body))
        ELSE Outcome(<<req>>, Str_deleted, NoErr)

\* UploadMedia that returns whatever id it decoded, empty or not
UploadMedia_NoIdCheck(phoneNumberId, file, filename, mimeType, resp) ==
    LET parts == <<[name |-> "messaging_product", value |-> "whatsapp"],
                   [name |-> "file", filename |-> Base(filename),
                    ctype |-> mimeType, data |-> file.data]>>
        req == MultipartRequest(Join(<<phoneNumberId, Str_media>>, Slash),
                                "POST", parts)
        res == Unmarshal(resp.body, UploadMediaResult)
    IN  IF file.fails
        THEN Outcome(<<>>, <<>>, Err("read", "failed to copy file into part"))
        ELSE IF resp.err
        THEN Outcome(<<req>>, <<>>, Wrap("error uploading media", TransportErr))
        ELSE IF res.err
        THEN Outcome(<<req>>, <<>>,
                     Err("decode", "failed to parse JSON response"))
        ELSE Outcome(<<req>>, res.val.id.s, NoErr)

\* UploadMedia that posts to the path of the resumable protocol
UploadMedia_ToUploads(phoneNumberId, file, filename, mimeType, resp) ==
    LET parts == <<[name |-> "messaging_product", value |-> "whatsapp"],
                   [name |-> "file", filename |-> Base(filename),
                    ctype |-> mimeType, data |-> file.data]>>
        req == MultipartRequest(Join(<<phoneNumberId, Str_uploads>>, Slash),
                                "POST", parts)
        res == Unmarshal(resp.body, UploadMediaResult)
    IN  IF file.fails
        THEN Outcome(<<>>, <<>>, Err("read", "failed to copy file into part"))
        ELSE IF resp.err
        THEN Outcome(<<req>>, <<>>, Wrap("error uploading media", TransportErr))
        ELSE IF res.err
        THEN Outcome(<<req>>, <<>>,
                     Err("decode", "failed to parse JSON response"))
        ELSE IF res.val.id.s = <<>>
        THEN Outcome(<<req>>, <<>>,
                     ErrBody("missing", "no media id in response", 0,
                             resp.body))
        ELSE Outcome(<<req>>, res.val.id.s, NoErr)

\* file is the io.Reader: the bytes it yields and whether reading it fails
UploadMedia(phoneNumberId, file, filename, mimeType, resp) ==
    LET parts == <<[name |-> "messaging_product", value |-> "whatsapp"],
                   [name |-> "file", filename |-> Base(filename),
                    ctype |-> mimeType, data |-> file.data]>>
        req == MultipartRequest(Join(<<phoneNumberId, Str_media>>, Slash),
                                "POST", parts)
        res == Unmarshal(resp.body, UploadMediaResult)
    IN  IF file.fails
        THEN Outcome(<<>>, <<>>, Err("read", "failed to copy file into part"))
        ELSE IF resp.err
        THEN Outcome(<<req>>, <<>>, Wrap("error uploading media", TransportErr))
        ELSE IF res.err
        THEN Outcome(<<req>>, <<>>,
                     Err("decode", "failed to parse JSON response"))
        ELSE IF res.val.id.s = <<>>
        THEN Outcome(<<req>>, <<>>,
                     ErrBody("missing", "no media id in response", 0,
                             resp.body))
        ELSE Outcome(<<req>>, res.val.id.s, NoErr)

\* CreateResumableUploadSession without its check of an empty id
CreateResumableUploadSession_NoIdCheck(appID, fileLength, fileType, resp) ==
    LET body == [enc |-> "json",
                 members |-> [file_length |-> fileLength,
                              file_type |-> fileType]]
        req == ApiRequest(appID \o Slash \o Str_uploads, "POST", body)
        res == Unmarshal(resp.body, ResumableUploadSession)
    IN  IF resp.err
        THEN Outcome(<<req>>, <<>>,
                     Wrap("failed to create upload session", TransportErr))
        ELSE IF res.err
        THEN Outcome(<<req>>, <<>>,
                     Err("decode", "failed to parse upload session response"))
        ELSE Outcome(<<req>>, res.val.id.s, NoErr)

CreateResumableUploadSession(appID, fileLength, fileType, resp) ==
    LET body == [enc |-> "json",
                 members |-> [file_length |-> fileLength,
                              file_type |-> fileType]]
        req == ApiRequest(appID \o Slash \o Str_uploads, "POST", body)
        res == Unmarshal(resp.body, ResumableUploadSession)
    IN  IF resp.err
        THEN Outcome(<<req>>, <<>>,
                     Wrap("failed to create upload session", TransportErr))
        ELSE IF res.err
        THEN Outcome(<<req>>, <<>>,
                     Err("decode", "failed to parse upload session response"))
        ELSE IF res.val.id.s = <<>>
        THEN Outcome(<<req>>, <<>>,
                     ErrBody("missing", "no upload session ID in response", 0,
                             resp.body))
        ELSE Outcome(<<req>>, res.val.id.s, NoErr)

StatusMin == 200
StatusLimit == 300

\* http.NewRequest refuses a URL that holds a control character
ValidURL(s) == \A i \in 1..Len(s) : s[i] # "\n"

\* fmt.Sprintf("%s://%s/%s/%s", REQUEST_PROTOCOL, BASE_URL, API_VERSION, id)
RequestPath(sessionID) ==
    <<"REQUEST_PROTOCOL", ":", "/", "/", "BASE_URL", "/", "API_VERSION", "/">>
        \o sessionID

\* UploadResumableMedia that takes status 300 for a success
UploadResumableMedia_Accepts300(sessionID, fileData, fileOffset, resp) ==
    LET req == [via |-> "http.Client", method |-> "POST",
                path |-> RequestPath(sessionID),
                body |-> [enc |-> "raw", data |-> fileData],
                headers |-> [Authorization |-> <<"OAuth ", "ApiAccessToken">>,
                             file_offset |-> FormatInt(fileOffset)]]
        res == Unmarshal(resp.body, ResumableUploadResult)
    IN  IF ~ValidURL(RequestPath(sessionID))
        THEN Outcome(<<>>, <<>>, Err("build", "failed to create request"))
        ELSE IF resp.fail = "do"
        THEN Outcome(<<req>>, <<>>,
                     Wrap("failed to execute upload request", TransportErr))
        ELSE IF resp.fail = "read"
        THEN Outcome(<<req>>, <<>>,
                     Wrap("failed to read response body", TransportErr))
        ELSE IF resp.status < StatusMin \/ resp.status > StatusLimit
        THEN Outcome(<<req>>, <<>>,
                     ErrBody("status", "upload failed with status",
                             resp.status, resp.body))
        ELSE IF res.err
        THEN Outcome(<<req>>, <<>>,
                     Err("decode", "failed to parse upload response"))
        ELSE IF res.val.h.s = <<>>
        THEN Outcome(<<req>>, <<>>,
                     ErrBody("missing", "no media handle in response", 0,
                             resp.body))
        ELSE Outcome(<<req>>, res.val.h.s, NoErr)

\* UploadResumableMedia that pushes once more after a push that failed
UploadResumableMedia_ResumesAfterFailure(sessionID, fileData, fileOffset, resp) ==
    LET req == [via |-> "http.Client", method |-> "POST",
                path |-> RequestPath(sessionID),
                body |-> [enc |-> "raw", data |-> fileData],
                headers |-> [Authorization |-> <<"OAuth ", "ApiAccessToken">>,
                             file_offset |-> FormatInt(fileOffset)]]
        res == Unmarshal(resp.body, ResumableUploadResult)
    IN  IF ~ValidURL(RequestPath(sessionID))
        THEN Outcome(<<>>, <<>>, Err("build", "failed to create request"))
        ELSE IF resp.fail = "do"
        THEN Outcome(<<req, req>>, <<>>,
                     Wrap("failed to execute upload request", TransportErr))
        ELSE IF resp.fail = "read"
        THEN Outcome(<<req, req>>, <<>>,
                     Wrap("failed to read response body", TransportErr))
        ELSE IF resp.status < StatusMin \/ resp.status >= StatusLimit
        THEN Outcome(<<req, req>>, <<>>,
                     ErrBody("status", "upload failed with status",
                             resp.status, resp.body))
        ELSE IF res.err
        THEN Outcome(<<req>>, <<>>,
                     Err("decode", "failed to parse upload response"))
        ELSE IF res.val.h.s = <<>>
        THEN Outcome(<<req>>, <<>>,
                     ErrBody("missing", "no media handle in response", 0,
                             resp.body))
        ELSE Outcome(<<req>>, res.val.h.s, NoErr)

\* resp is what http.Client.Do and io.ReadAll yield: fail is "do" when the
\* exchange failed, "read" when reading the body failed, else "none"
UploadResumableMedia(sessionID, fileData, fileOffset, resp) ==
    LET req == [via |-> "http.Client", method |-> "POST",
                path |-> RequestPath(sessionID),
                body |-> [enc |-> "raw", data |-> fileData],
                headers |-> [Authorization |-> <<"OAuth ", "ApiAccessToken">>,
                             file_offset |-> FormatInt(fileOffset)]]
        res == Unmarshal(resp.body, ResumableUploadResult)
    IN  IF ~ValidURL(RequestPath(sessionID))
        THEN Outcome(<<>>, <<>>, Err("build", "failed to create request"))
        ELSE IF resp.fail = "do"
        THEN Outcome(<<req>>, <<>>,
                     Wrap("failed to execute upload request", TransportErr))
        ELSE IF resp.fail = "read"
        THEN Outcome(<<req>>, <<>>,
                     Wrap("failed to read response body", TransportErr))
        ELSE IF resp.status < StatusMin \/ resp.status >= StatusLimit
        THEN Outcome(<<req>>, <<>>,
                     ErrBody("status", "upload failed with status",
                             resp.status, resp.body))
        ELSE IF res.err
        THEN Outcome(<<req>>, <<>>,
                     Err("decode", "failed to parse upload response"))
        ELSE IF res.val.h.s = <<>>
        THEN Outcome(<<req>>, <<>>,
                     ErrBody("missing", "no media handle in response", 0,
                             resp.body))
        ELSE Outcome(<<req>>, res.val.h.s, NoErr)

\* UploadMediaForTemplate that goes on to the push whatever the session
\* creation returned
TemplateCreateSession_IgnoresError(appID, fileData, fileType, resp) ==
    LET s == CreateResumableUploadSession(appID, Len(fileData), fileType, resp)
    IN  Outcome(s.reqs, s.val, NoErr)

\* UploadMediaForTemplate up to the return of its session-creation call
TemplateCreateSession(appID, fileData, fileType, resp) ==
    LET s == CreateResumableUploadSession(appID, Len(fileData), fileType, resp)
    IN  IF IsErr(s.err)
        THEN Outcome(s.reqs, <<>>,
                     Wrap("failed to create upload session", s.err))
        ELSE s

\* UploadMediaForTemplate that returns the session id for the handle
TemplateUpload_ReturnsSession(sessionID, fileData, sent, resp) ==
    LET u == UploadResumableMedia(sessionID, fileData, 0, resp)
    IN  IF IsErr(u.err)
        THEN Outcome(sent \o u.reqs, <<>>, Wrap("failed to upload media", u.err))
        ELSE Outcome(sent \o u.reqs, sessionID, NoErr)

\* UploadMediaForTemplate that pushes a second time when the push failed
TemplateUpload_Retries(sessionID, fileData, sent, resp) ==
    LET u == UploadResumableMedia(sessionID, fileData, 0, resp)
    IN  IF IsErr(u.err)
        THEN Outcome(sent \o u.reqs \o u.reqs, <<>>,
                     Wrap("failed to upload media", u.err))
        ELSE Outcome(sent \o u.reqs, u.val, NoErr)

\* UploadMediaForTemplate that pushes from the end of the payload
TemplateUpload_WrongOffset(sessionID, fileData, sent, resp) ==
    LET u == UploadResumableMedia(sessionID, fileData, Len(fileData), resp)
    IN  IF IsErr(u.err)
        THEN Outcome(sent \o u.reqs, <<>>, Wrap("failed to upload media", u.err))
        ELSE Outcome(sent \o u.reqs, u.val, NoErr)

\* UploadMediaForTemplate from its push call to its return; sent are the
\* requests the call has issued so far
TemplateUpload(sessionID, fileData, sent, resp) ==
    LET u == UploadResumableMedia(sessionID, fileData, 0, resp)
    IN  IF IsErr(u.err)
        THEN Outcome(sent \o u.reqs, <<>>, Wrap("failed to upload media", u.err))
        ELSE Outcome(sent \o u.reqs, u.val, NoErr)

(***************************************************************************)
(* FlowManager: the flow document of a flow.                                *)
(***************************************************************************)
Str_assets == <<"a", "s", "s", "e", "t", "s">>

\* a response body of the assets path: an object with a success member and a
\* validation_errors member, which is absent, null, of another type
\* ("string") or an array of items
NoErrors == [t |-> "absent", items |-> <<>>]
FlowBody(success, errors) ==
    [k |-> "object", obj |-> [NoFields EXCEPT !["success"] = success],
     errors |-> errors]

\* json.Unmarshal of one array item into a FlowValidationError
FlowValidationError(item) ==
    [Error |-> item.error, ErrorType |-> item.error_type,
     Message |-> item.message, LineStart |-> item.line_start]

\* json.Unmarshal of the validation_errors member into
\* []FlowValidationError: the items in the order of the array
RECURSIVE UnmarshalErrors(_)
UnmarshalErrors(items) ==
    IF items = <<>> THEN <<>>
    ELSE <<FlowValidationError(Head(items))>> \o UnmarshalErrors(Tail(items))

\* the decoding of a struct without its ValidationErrors field
UploadFlowJSONResponse_NoErrors(body) ==
    LET nothing == [Success |-> FALSE, ValidationErrors |-> <<>>]
    IN  IF body.k \in {"malformed", "array"} THEN [err |-> TRUE, val |-> nothing]
        ELSE IF body.k = "null" THEN [err |-> FALSE, val |-> nothing]
        ELSE [err |-> body.obj["success"].t \notin {"absent", "null", "bool"},
              val |-> [Success |-> body.obj["success"].b,
                       ValidationErrors |-> <<>>]]

\* json.Unmarshal(response, &result) for UploadFlowJSONResponse
UploadFlowJSONResponse(body) ==
    LET nothing == [Success |-> FALSE, ValidationErrors |-> <<>>]
    IN  IF body.k \in {"malformed", "array"} THEN [err |-> TRUE, val |-> nothing]
        ELSE IF body.k = "null" THEN [err |-> FALSE, val |-> nothing]
        ELSE [err |-> \/ body.obj["success"].t \notin {"absent", "null", "bool"}
                      \/ body.errors.t \notin {"absent", "null", "array"}
                      \/ \E i \in 1..Len(body.errors.items) :
                            body.errors.items[i].t # "object",
              val |-> [Success |-> body.obj["success"].b,
                       ValidationErrors |->
                           IF body.errors.t = "array"
                           THEN UnmarshalErrors(body.errors.items)
                           ELSE <<>>]]

\* json.Unmarshal(response, &result) for CreateFlowResponse
CreateFlowResponse(body) ==
    LET r == UploadFlowJSONResponse(body)
    IN  [err |-> r.err \/ (body.k = "object"
                             /\ body.obj["id"].t \notin {"absent", "null", "string"}),
         val |-> [ID |-> IF body.k = "object" THEN body.obj["id"].s ELSE <<>>,
                  Success |-> r.val.Success,
                  ValidationErrors |-> r.val.ValidationErrors]]

\* a *T result: nil or a pointer to the decoded struct
Nil == [nil |-> TRUE]
Ptr(v) == [nil |-> FALSE, v |-> v]

\* the three parts of the form UploadFlowJSON builds
FlowForm(flowJSON) ==
    <<[name |-> "name", value |-> "flow.json"],
      [name |-> "asset_type", value |-> "FLOW_JSON"],
      [name |-> "file", filename |-> "flow.json",
       ctype |-> "application/octet-stream", data |-> flowJSON]>>

\* UploadFlowJSON as it stands in manager/flow_manager.go: the three fields
\* go out as the JSON body of an ordinary request
UploadFlowJSON_JSONBody(flowID, flowJSON, resp) ==
    LET req == ApiRequest(Join(<<flowID, Str_assets>>, Slash), "POST",
                          [enc |-> "json",
                           members |-> [name |-> "flow.json",
                                        asset_type |-> "FLOW_JSON",
                                        file |-> flowJSON]])
        res == CreateFlowResponse(resp.body)
    IN  IF resp.err THEN Outcome(<<req>>, Nil, TransportErr)
        ELSE IF res.err
        THEN Outcome(<<req>>, Nil, Err("decode", "failed to unmarshal response"))
        ELSE Outcome(<<req>>, Ptr(res.val), NoErr)

\* UploadFlowJSON that takes an accepted exchange for a success
UploadFlowJSON_AssumesSuccess(flowID, flowJSON, resp) ==
    LET req == MultipartRequest(Join(<<flowID, Str_assets>>, Slash), "POST",
                                FlowForm(flowJSON))
        res == UploadFlowJSONResponse(resp.body)
    IN  IF resp.err
        THEN Outcome(<<req>>, Nil, Wrap("failed to upload flow JSON", TransportErr))
        ELSE IF res.err
        THEN Outcome(<<req>>, Nil, Err("decode", "failed to unmarshal response"))
        ELSE Outcome(<<req>>, Ptr([res.val EXCEPT !.Success = TRUE]), NoErr)

UploadFlowJSON(flowID, flowJSON, resp) ==
    LET req == MultipartRequest(Join(<<flowID, Str_assets>>, Slash), "POST",
                                FlowForm(flowJSON))
        res == UploadFlowJSONResponse(resp.body)
    IN  IF resp.err
        THEN Outcome(<<req>>, Nil, Wrap("failed to upload flow JSON", TransportErr))
        ELSE IF res.err
        THEN Outcome(<<req>>, Nil, Err("decode", "failed to unmarshal response"))
        ELSE Outcome(<<req>>, Ptr(res.val), NoErr)

\* GetFlowJSON that decodes the response and fails on a text that is no JSON
\* object
GetFlowJSON_Parses(flowID, resp) ==
    LET req == ApiRequest(Join(<<flowID, Str_assets>>, Slash), "GET", NoBody)
    IN  IF resp.err THEN Outcome(<<req>>, <<>>, TransportErr)
        ELSE IF resp.body # <<"{", "}">>
        THEN Outcome(<<req>>, <<>>, Err("decode", "failed to unmarshal response"))
        ELSE Outcome(<<req>>, resp.body, NoErr)

\* resp.body is the raw text of the response
GetFlowJSON(flowID, resp) ==
    LET req == ApiRequest(Join(<<flowID, Str_assets>>, Slash), "GET", NoBody)
    IN  IF resp.err THEN Outcome(<<req>>, <<>>, TransportErr)
        ELSE Outcome(<<req>>, resp.body, NoErr)

(***************************************************************************)
(* FlowMessage: the interactive message that sends a flow.                  *)
(***************************************************************************)
\* internal.GetValidator().Struct(params): the fields tagged
\* validate:"required" must not be empty
ValidateParams(params) == params.BodyText # "" /\ params.FlowCTA # ""

\* the FlowMessage NewFlowMessage builds, before it sets the flow reference
NewMessage(params, version) ==
    [Type |-> "InteractiveMessageTypeFlow",
     Header |-> Nil,
     Body |-> [Text |-> params.BodyText],
     Footer |-> Nil,
     Action |-> [Name |-> "flow",
                 Parameters |-> [FlowMessageVersion |-> version,
                                 FlowID |-> "",
                                 FlowName |-> "",
                                 FlowCTA |-> params.FlowCTA,
                                 FlowToken |-> "",
                                 FlowAction |-> "",
                                 FlowActionPayload |-> Nil,
                                 Mode |-> ""]]]

\* NewFlowMessage that copies both references of the parameters
NewFlowMessage_BothReferences(params) ==
    LET version == IF params.FlowMessageVersion = "" THEN "3"
                   ELSE params.FlowMessageVersion
        m == NewMessage(params, version)
    IN  IF ~ValidateParams(params)
        THEN [message |-> Nil, err |-> "error validating params"]
        ELSE IF params.FlowID = "" /\ params.FlowName = ""
        THEN [message |-> Nil, err |-> "either FlowID or FlowName is required"]
        ELSE [message |-> Ptr([m EXCEPT
                                  !.Action.Parameters.FlowID = params.FlowID,
                                  !.Action.Parameters.FlowName = params.FlowName]),
              err |-> ""]

NewFlowMessage(params) ==
    LET version == IF params.FlowMessageVersion = "" THEN "3"
                   ELSE params.FlowMessageVersion
        m == NewMessage(params, version)
    IN  IF ~ValidateParams(params)
        THEN [message |-> Nil, err |-> "error validating params"]
        ELSE IF params.FlowID = "" /\ params.FlowName = ""
        THEN [message |-> Nil, err |-> "either FlowID or FlowName is required"]
        ELSE IF params.FlowID # ""
        THEN [message |-> Ptr([m EXCEPT
                                  !.Action.Parameters.FlowID = params.FlowID]),
              err |-> ""]
        ELSE [message |-> Ptr([m EXCEPT
                                  !.Action.Parameters.FlowName = params.FlowName]),
              err |-> ""]

SetHeader(m, text) ==
    [m EXCEPT !.Header = Ptr([Type |-> "text", Text |-> text])]
SetFooter(m, text) == [m EXCEPT !.Footer = Ptr([Text |-> text])]
SetFlowToken(m, token) == [m EXCEPT !.Action.Parameters.FlowToken = token]
SetMode(m, mode) == [m EXCEPT !.Action.Parameters.Mode = mode]
SetFlowAction(m, action, payload) ==
    [m EXCEPT !.Action.Parameters.FlowAction = action,
              !.Action.Parameters.FlowActionPayload = payload]

(***************************************************************************)
(* Inputs the callers supply and responses the remote can send.             *)
(***************************************************************************)
Bytes == {7}
Payloads == UNION {[1..n -> Bytes] : n \in 0..MaxPayloadLen}
Lengths == 0..MaxPayloadLen
AppIds == {<<"A", "1">>}
PhoneIds == {<<"P", "1">>}
MimeTypes == {"image/png"}
Filenames == {<<"d", "/", "f">>, <<>>}
Offsets == {-1, 0, 12}
Callers == {1, 2}

SessionIds == {<<"s", Digits[n + 1]>> : n \in 1..NumSessions}
MediaIds == {<<"m", Digits[n + 1]>> : n \in 1..NumMedia}
Handles == {<<"4", ":", ":", "a">>, <<"4", ":", ":", "b">>}
Urls == {<<"u">>}
Statuses == {199, 200, 299, 300}

FlowMessageParams ==
    [BodyText : {"", "Book a slot"}, FlowID : {"", "F1"},
     FlowName : {"", "booking"}, FlowCTA : {"", "Open"},
     FlowMessageVersion : {"", "3", "4"}]
Texts == {"", "Hello"}
Tokens == {"", "token"}
FlowMessageModes == {"draft", "published"}
FlowActions == {"navigate", "data_exchange"}
FlowActionPayloads == {Nil, Ptr([Screen |-> "FIRST_ENTRY_SCREEN"])}

FlowIds == {<<"F", "1">>, <<"F", "2">>}
\* flow documents: a well-formed one, two that are not JSON, and another
\* well-formed one
FlowDocs == {<<"{", "}">>, <<"{">>, <<>>, <<"[", "]">>}

\* items of a validation_errors array: two error objects, one of them
\* without a message, and an item that is no object
FlowErrorItems ==
    {[t |-> "object", error |-> "INVALID_JSON", error_type |-> "JSON",
      message |-> "unexpected end of input", line_start |-> 1],
     [t |-> "object", error |-> "UNKNOWN", error_type |-> "", message |-> "",
      line_start |-> 0],
     [t |-> "number", error |-> "", error_type |-> "", message |-> "",
      line_start |-> 0]}
FlowErrorMembers ==
    {NoErrors, [t |-> "null", items |-> <<>>], [t |-> "string", items |-> <<>>]}
      \cup {[t |-> "array", items |-> xs] :
                xs \in UNION {[1..n -> FlowErrorItems] : n \in 0..MaxErrors}}
FlowBodies ==
    {Malformed, NullBody, ArrayBody}
      \cup {FlowBody(success, errors) :
                success \in {Absent, JBool(TRUE), JBool(FALSE), JStr(<<>>)},
                errors \in FlowErrorMembers}
FlowReplies == {TransportFailure} \cup {Reply(b) : b \in FlowBodies}
\* the raw text a GET of the assets path can return
TextFailure == [err |-> TRUE, body |-> <<>>]
TextReplies == {TextFailure} \cup {Reply(doc) : doc \in FlowDocs}

Documents == {Malformed, NullBody, ArrayBody, EmptyObject}
Scalars == {JNull, JNum, JStr(<<>>)}

SessionBodies ==
    Documents \cup
    {Obj("id" :> v) : v \in Scalars \cup {JStr(s) : s \in SessionIds}}
SessionReplies == {TransportFailure} \cup {Reply(b) : b \in SessionBodies}

PushBodies ==
    {Malformed, EmptyObject} \cup
    {Obj("h" :> v) : v \in {JNum, JStr(<<>>)} \cup {JStr(h) : h \in Handles}}
PushFailures ==
    {[fail |-> f, status |-> 0, body |-> Malformed] : f \in {"do", "read"}}
PushReplies ==
    PushFailures \cup
    {[fail |-> "none", status |-> st, body |-> b] :
        st \in Statuses, b \in PushBodies}

MetadataBodies ==
    Documents \cup
    {Obj("url" :> v) : v \in Scalars \cup {JStr(u) : u \in Urls}} \cup
    {Obj(("url" :> JStr(u)) @@ ("file_size" :> JStr(<<"1">>))) : u \in Urls}
MetadataReplies == {TransportFailure} \cup {Reply(b) : b \in MetadataBodies}

DeleteBodies ==
    Documents \cup
    {Obj("success" :> v) : v \in {JNull, JStr(<<"t">>), JBool(TRUE), JBool(FALSE)}}
DeleteReplies == {TransportFailure} \cup {Reply(b) : b \in DeleteBodies}

UploadBodies ==
    Documents \cup
    {Obj("id" :> v) : v \in Scalars \cup {JStr(m) : m \in MediaIds}}
UploadReplies == {TransportFailure} \cup {Reply(b) : b \in UploadBodies}

\* the string member f of a reply's JSON object, <<>> when it has none
Member(resp, f) ==
    IF resp.body.k = "object" /\ resp.body.obj[f].t = "string"
    THEN resp.body.obj[f].s
    ELSE <<>>

(***************************************************************************)
(* The remote service.  It hands out each upload-session id and each media  *)
(* id at most once, and it never reports the deletion of a media object it  *)
(* has already deleted.                                                     *)
(***************************************************************************)
SessionIssuedBy(resp) ==
    IF ~resp.err /\ Member(resp, "id") # <<>> THEN {Member(resp, "id")} ELSE {}

RemoteSessionReplies == {r \in SessionReplies : SessionIssuedBy(r) \cap issued = {}}

ReportsDeletion(resp) ==
    /\ ~resp.err
    /\ resp.body.k = "object"
    /\ resp.body.obj["success"] = JBool(TRUE)

RemoteDeleteReplies(id) ==
    {r \in DeleteReplies : id \in deleted => ~ReportsDeletion(r)}

RemoteUploadReplies ==
    {r \in UploadReplies : r.err \/ Member(r, "id") \notin deleted}

(***************************************************************************)
(* State.                                                                   *)
(***************************************************************************)
\* doc is what the remote stored, given the document the caller of the
\* upload passed
NoAsset == [stored |-> FALSE, doc |-> <<>>, given |-> <<>>]
NoAssets == [f \in FlowIds |-> NoAsset]
NoUploads == [media |-> {}, session |-> {}]
NoMessage == [made |-> FALSE]

Idle ==
    [pc |-> "idle", appID |-> <<>>, fileData |-> <<>>, fileType |-> "",
     sessionID |-> <<>>, sent |-> <<>>, resps |-> <<>>]

\* the record of a returned call: resps are the responses it consumed
Returned(op, caller, args, resps, out, already) ==
    [op |-> op, caller |-> caller, args |-> args,
     resps |-> IF out.reqs = <<>> THEN <<>> ELSE resps,
     out |-> out, already |-> already]

NoCall == Returned("none", 0, <<>>, <<>>, Outcome(<<>>, <<>>, NoErr), FALSE)

NoRun == [stage |-> "off", sessionID |-> <<>>, val |-> <<>>, err |-> NoErr,
          reqs |-> <<>>]
NoRuns == [appID |-> <<>>, fileData |-> <<>>, fileType |-> "",
           tmpl |-> NoRun, manual |-> NoRun]

Init ==
    /\ issued = {}
    /\ pushes = [s \in SessionIds |-> [direct |-> 0, composed |-> 0]]
    /\ deleted = {}
    /\ inflight = [c \in Callers |-> Idle]
    /\ last = NoCall
    /\ script = <<>>
    /\ runs = NoRuns
    /\ assets = NoAssets
    /\ uploaded = NoUploads
    /\ flowMsg = NoMessage

(***************************************************************************)
(* One call of each operation against a given response: what the program    *)
(* does.                                                                    *)
(***************************************************************************)
DoGetMediaUrlById(id, resp) ==
    /\ last' = Returned("GetMediaUrlById", 0, [id |-> id], <<resp>>,
                        GetMediaUrlById(id, resp), FALSE)
    /\ UNCHANGED inflight

\* the record notes whether the remote had already deleted the media object
DoDeleteMedia(id, resp) ==
    /\ last' = Returned("DeleteMedia", 0, [id |-> id], <<resp>>,
                        DeleteMedia(id, resp), id \in deleted)
    /\ UNCHANGED inflight

DoUploadMedia(phoneNumberId, file, filename, mimeType, resp) ==
    /\ last' = Returned("UploadMedia", 0,
                        [phoneNumberId |-> phoneNumberId, file |-> file,
                         filename |-> filename, mimeType |-> mimeType],
                        <<resp>>,
                        UploadMedia(phoneNumberId, file, filename, mimeType, resp),
                        FALSE)
    /\ UNCHANGED inflight

DoCreateResumableUploadSession(appID, fileLength, fileType, resp) ==
    /\ last' = Returned("CreateResumableUploadSession", 0,
                        [appID |-> appID, fileLength |-> fileLength,
                         fileType |-> fileType],
                        <<resp>>,
                        CreateResumableUploadSession(appID, fileLength, fileType, resp),
                        FALSE)
    /\ UNCHANGED inflight

DoUploadResumableMedia(sessionID, fileData, fileOffset, resp) ==
    /\ last' = Returned("UploadResumableMedia", 0,
                        [sessionID |-> sessionID, fileData |-> fileData,
                         fileOffset |-> fileOffset],
                        <<resp>>,
                        UploadResumableMedia(sessionID, fileData, fileOffset, resp),
                        FALSE)
    /\ UNCHANGED inflight

\* UploadMediaForTemplate, first exchange: the call returns at once when the
\* session could not be created, and otherwise goes on to the push
DoTemplateCreateSession(c, appID, fileData, fileType, resp) ==
    LET out == TemplateCreateSession(appID, fileData, fileType, resp)
        args == [appID |-> appID, fileData |-> fileData, fileType |-> fileType]
    IN  /\ inflight[c].pc = "idle"
        /\ IF IsErr(out.err)
           THEN /\ last' = Returned("UploadMediaForTemplate", c, args, <<resp>>,
                                    out, FALSE)
                /\ UNCHANGED inflight
           ELSE /\ inflight' = [inflight EXCEPT ![c] =
                                   [pc |-> "created", appID |-> appID,
                                    fileData |-> fileData, fileType |-> fileType,
                                    sessionID |-> out.val, sent |-> out.reqs,
                                    resps |-> <<resp>>]]
                /\ UNCHANGED last

\* the second exchange of an UploadMediaForTemplate that keeps the session id
\* and the payload in a place its callers share
DoTemplateUpload_SharedSession(c, resp) ==
    LET f == inflight[c]
        g == inflight[CHOOSE d \in DOMAIN inflight : inflight[d].pc = "created"]
    IN  /\ f.pc = "created"
        /\ last' = Returned("UploadMediaForTemplate", c,
                            [appID |-> f.appID, fileData |-> f.fileData,
                             fileType |-> f.fileType],
                            f.resps \o <<resp>>,
                            TemplateUpload(g.sessionID, g.fileData, f.sent, resp),
                            FALSE)
        /\ inflight' = [inflight EXCEPT ![c] = Idle]

\* UploadMediaForTemplate, second exchange and return
DoTemplateUpload(c, resp) ==
    LET f == inflight[c]
    IN  /\ f.pc = "created"
        /\ last' = Returned("UploadMediaForTemplate", c,
                            [appID |-> f.appID, fileData |-> f.fileData,
                             fileType |-> f.fileType],
                            f.resps \o <<resp>>,
                            TemplateUpload(f.sessionID, f.fileData, f.sent, resp),
                            FALSE)
        /\ inflight' = [inflight EXCEPT ![c] = Idle]

DoUploadFlowJSON(flowID, flowJSON, resp) ==
    /\ last' = Returned("UploadFlowJSON", 0,
                        [flowID |-> flowID, flowJSON |-> flowJSON], <<resp>>,
                        UploadFlowJSON(flowID, flowJSON, resp), FALSE)
    /\ UNCHANGED inflight

DoUploadFlowJSON_JSONBody(flowID, flowJSON, resp) ==
    /\ last' = Returned("UploadFlowJSON_JSONBody", 0,
                        [flowID |-> flowID, flowJSON |-> flowJSON], <<resp>>,
                        UploadFlowJSON_JSONBody(flowID, flowJSON, resp), FALSE)
    /\ UNCHANGED inflight

DoGetFlowJSON(flowID, resp) ==
    /\ last' = Returned("GetFlowJSON", 0, [flowID |-> flowID], <<resp>>,
                        GetFlowJSON(flowID, resp), FALSE)
    /\ UNCHANGED inflight

(***************************************************************************)
(* What the remote service records of an exchange.                          *)
(***************************************************************************)
IsPush(req) == req.via = "http.Client"
PushCount(reqs) == Cardinality({i \in 1..Len(reqs) : IsPush(reqs[i])})

\* the remote's count after it received the push requests among reqs, sent to
\* sessionID by UploadResumableMedia called directly ("direct") or by
\* UploadMediaForTemplate ("composed")
Pushed(reqs, sessionID, by) ==
    IF sessionID \in issued
    THEN [pushes EXCEPT ![sessionID][by] = @ + PushCount(reqs)]
    ELSE pushes

CanPush(sessionID, by) ==
    sessionID \in issued => pushes[sessionID][by] < MaxPushes

RemoteIssues(resp) ==
    /\ issued' = issued \cup SessionIssuedBy(resp)
    /\ UNCHANGED <<pushes, deleted>>

RemoteReceives(reqs, sessionID, by) ==
    /\ CanPush(sessionID, by)
    /\ pushes' = Pushed(reqs, sessionID, by)
    /\ UNCHANGED <<issued, deleted>>

RemoteDeletes(id, resp) ==
    /\ deleted' = IF ReportsDeletion(resp) THEN deleted \cup {id} ELSE deleted
    /\ UNCHANGED <<issued, pushes>>

\* the file part of a multipart request, if it has one
FileParts(req) ==
    IF req.body.enc = "multipart"
    THEN {i \in 1..Len(req.body.parts) : req.body.parts[i].name = "file"}
    ELSE {}

ReportsSuccess(resp) ==
    ~resp.err /\ resp.body.k = "object" /\ resp.body.obj["success"] = JBool(TRUE)

\* a faithful echo: when it answers an upload with success=true it has stored
\* the content of the file part as the document of the flow
RemoteStores(flowID, reqs, given, resp) ==
    assets' =
        IF reqs # <<>> /\ ReportsSuccess(resp) /\ FileParts(reqs[1]) # {}
        THEN [assets EXCEPT ![flowID] =
                 [stored |-> TRUE,
                  doc |-> reqs[1].body.parts[CHOOSE i \in FileParts(reqs[1]) : TRUE].data,
                  given |-> given]]
        ELSE assets

\* ... and answers a GET of the assets path with the stored document
RemoteTextReplies(flowID) ==
    {TextFailure}
      \cup (IF assets[flowID].stored THEN {Reply(assets[flowID].doc)} ELSE {})

\* an exchange that leaves the remote as it was, and a transport that keeps
\* no record at all
RemoteKeeps == UNCHANGED <<issued, pushes, deleted>>

(***************************************************************************)
(* Spec: the life of the upload sessions.  Any sequence of the three        *)
(* operations of the resumable protocol against the remote service, which   *)
(* either fails the exchange or answers it.                                 *)
(***************************************************************************)
SessionOutcomes ==
    {TransportFailure} \cup {Reply(Obj("id" :> JStr(s))) : s \in SessionIds}
PushOutcomes ==
    {[fail |-> "do", status |-> 0, body |-> Malformed],
     [fail |-> "none", status |-> 200,
      body |-> Obj("h" :> JStr(<<"4", ":", ":", "a">>))]}
\* the session ids a caller passes: any the remote can issue, and one that
\* no URL can hold
PassedSessionIds == SessionIds \cup {<<"s", "\n">>}
OneCaller == {1}

CreateSession ==
    \E appID \in AppIds, fileLength \in Lengths, fileType \in MimeTypes,
       resp \in SessionOutcomes \cap RemoteSessionReplies :
        /\ DoCreateResumableUploadSession(appID, fileLength, fileType, resp)
        /\ RemoteIssues(resp)
        /\ UNCHANGED <<script, runs, assets, uploaded, flowMsg>>

PushData ==
    \E sessionID \in PassedSessionIds, fileData \in Payloads,
       fileOffset \in {0, 12}, resp \in PushOutcomes :
        /\ DoUploadResumableMedia(sessionID, fileData, fileOffset, resp)
        /\ RemoteReceives(UploadResumableMedia(sessionID, fileData, fileOffset,
                                               resp).reqs,
                          sessionID, "direct")
        /\ UNCHANGED <<script, runs, assets, uploaded, flowMsg>>

StartTemplate ==
    \E c \in OneCaller, appID \in AppIds, fileData \in Payloads,
       fileType \in MimeTypes, resp \in SessionOutcomes \cap RemoteSessionReplies :
        /\ DoTemplateCreateSession(c, appID, fileData, fileType, resp)
        /\ RemoteIssues(resp)
        /\ UNCHANGED <<script, runs, assets, uploaded, flowMsg>>

ContinueTemplate ==
    \E c \in OneCaller, resp \in PushOutcomes :
        /\ DoTemplateUpload(c, resp)
        /\ RemoteReceives(TemplateUpload(inflight[c].sessionID,
                                         inflight[c].fileData,
                                         inflight[c].sent, resp).reqs,
                          inflight[c].sessionID, "composed")
        /\ UNCHANGED <<script, runs, assets, uploaded, flowMsg>>

Next ==
    \/ CreateSession
    \/ PushData
    \/ StartTemplate
    \/ ContinueTemplate

Spec == Init /\ [][Next]_vars

(***************************************************************************)
(* SpecCalls: each operation of the resumable protocol against a transport  *)
(* that may hand back any response.                                         *)
(***************************************************************************)
\* the session ids a caller passes: a plausible one, the empty one and one
\* that no URL can hold
AnySessionIds == {<<"s", "1">>, <<>>, <<"s", "\n">>}

TryCreateResumableUploadSession ==
    \E appID \in AppIds, fileLength \in Lengths, fileType \in MimeTypes,
       resp \in SessionReplies :
        /\ DoCreateResumableUploadSession(appID, fileLength, fileType, resp)
        /\ RemoteKeeps
        /\ UNCHANGED <<script, runs, assets, uploaded, flowMsg>>

TryUploadResumableMedia ==
    \E sessionID \in AnySessionIds, fileData \in Payloads,
       fileOffset \in Offsets, resp \in PushReplies :
        /\ DoUploadResumableMedia(sessionID, fileData, fileOffset, resp)
        /\ RemoteKeeps
        /\ UNCHANGED <<script, runs, assets, uploaded, flowMsg>>

TryUploadMediaForTemplate ==
    \E c \in OneCaller, appID \in AppIds, fileData \in Payloads,
       fileType \in MimeTypes, resp \in SessionReplies :
        /\ DoTemplateCreateSession(c, appID, fileData, fileType, resp)
        /\ RemoteKeeps
        /\ UNCHANGED <<script, runs, assets, uploaded, flowMsg>>

TryUploadMediaForTemplateContinue ==
    \E c \in OneCaller, resp \in PushReplies :
        /\ DoTemplateUpload(c, resp)
        /\ RemoteKeeps
        /\ UNCHANGED <<script, runs, assets, uploaded, flowMsg>>

NextCalls ==
    \/ TryCreateResumableUploadSession
    \/ TryUploadResumableMedia
    \/ TryUploadMediaForTemplate
    \/ TryUploadMediaForTemplateContinue

SpecCalls == Init /\ [][NextCalls]_vars

(***************************************************************************)
(* SpecMedia: the media-id operations against the remote service.           *)
(***************************************************************************)
CallGetMediaUrlById ==
    \E id \in MediaIds, resp \in MetadataReplies :
        /\ DoGetMediaUrlById(id, resp)
        /\ RemoteKeeps
        /\ UNCHANGED <<script, runs, assets, uploaded, flowMsg>>

CallDeleteMedia ==
    \E id \in MediaIds : \E resp \in RemoteDeleteReplies(id) :
        /\ DoDeleteMedia(id, resp)
        /\ RemoteDeletes(id, resp)
        /\ UNCHANGED <<script, runs, assets, uploaded, flowMsg>>

CallUploadMedia ==
    \E phoneNumberId \in PhoneIds, data \in Payloads, fails \in BOOLEAN,
       filename \in Filenames, mimeType \in MimeTypes,
       resp \in RemoteUploadReplies :
        /\ DoUploadMedia(phoneNumberId, [data |-> data, fails |-> fails],
                         filename, mimeType, resp)
        /\ RemoteKeeps
        /\ UNCHANGED <<script, runs, assets, uploaded, flowMsg>>

NextMedia ==
    \/ CallGetMediaUrlById
    \/ CallDeleteMedia
    \/ CallUploadMedia

SpecMedia == Init /\ [][NextMedia]_vars

(***************************************************************************)
(* SpecFlowUpload: UploadFlowJSON, in both forms the sources hold, against  *)
(* a transport that may hand back any response.                             *)
(***************************************************************************)
TryUploadFlowJSON ==
    \E flowID \in FlowIds, flowJSON \in FlowDocs, resp \in FlowReplies :
        /\ DoUploadFlowJSON(flowID, flowJSON, resp)
        /\ RemoteKeeps
        /\ UNCHANGED <<script, runs, assets, uploaded, flowMsg>>

TryUploadFlowJSON_JSONBody ==
    \E flowID \in FlowIds, flowJSON \in FlowDocs, resp \in FlowReplies :
        /\ DoUploadFlowJSON_JSONBody(flowID, flowJSON, resp)
        /\ RemoteKeeps
        /\ UNCHANGED <<script, runs, assets, uploaded, flowMsg>>

NextFlowUpload ==
    \/ TryUploadFlowJSON
    \/ TryUploadFlowJSON_JSONBody

SpecFlowUpload == Init /\ [][NextFlowUpload]_vars

(***************************************************************************)
(* SpecFlow: UploadFlowJSON and GetFlowJSON against a remote that is a      *)
(* faithful echo of the documents it accepted.                              *)
(***************************************************************************)
\* the echo accepts the document, rejects it with a validation error, or
\* the exchange fails
EchoReplies ==
    {TransportFailure, Reply(FlowBody(JBool(TRUE), NoErrors)),
     Reply(FlowBody(JBool(FALSE),
                    [t |-> "array",
                     items |-> <<[t |-> "object", error |-> "INVALID_JSON",
                                  error_type |-> "JSON",
                                  message |-> "unexpected end of input",
                                  line_start |-> 1]>>]))}

CallUploadFlowJSON ==
    \E flowID \in FlowIds, flowJSON \in FlowDocs, resp \in EchoReplies :
        /\ DoUploadFlowJSON(flowID, flowJSON, resp)
        /\ RemoteStores(flowID, UploadFlowJSON(flowID, flowJSON, resp).reqs,
                        flowJSON, resp)
        /\ RemoteKeeps
        /\ UNCHANGED <<script, runs, uploaded, flowMsg>>

CallGetFlowJSON ==
    \E flowID \in FlowIds : \E resp \in RemoteTextReplies(flowID) :
        /\ DoGetFlowJSON(flowID, resp)
        /\ RemoteKeeps
        /\ UNCHANGED <<script, runs, assets, uploaded, flowMsg>>

NextFlow ==
    \/ CallUploadFlowJSON
    \/ CallGetFlowJSON

SpecFlow == Init /\ [][NextFlow]_vars

(***************************************************************************)
(* SpecRequests: every operation of MediaManager and of FlowManager, each   *)
(* called with one set of arguments against every response the transport    *)
(* can hand back.                                                           *)
(***************************************************************************)
OnePayload == {<<7>>}
OneFlowId == {<<"F", "1">>}
OneFlowDoc == {<<"{", "}">>}

ReqGetMediaUrlById ==
    \E id \in MediaIds, resp \in MetadataReplies :
        /\ DoGetMediaUrlById(id, resp)
        /\ RemoteKeeps
        /\ UNCHANGED <<script, runs, assets, uploaded, flowMsg>>

ReqDeleteMedia ==
    \E id \in MediaIds, resp \in DeleteReplies :
        /\ DoDeleteMedia(id, resp)
        /\ RemoteKeeps
        /\ UNCHANGED <<script, runs, assets, uploaded, flowMsg>>

ReqUploadMedia ==
    \E phoneNumberId \in PhoneIds, data \in OnePayload, fails \in BOOLEAN,
       filename \in Filenames, mimeType \in MimeTypes, resp \in UploadReplies :
        /\ DoUploadMedia(phoneNumberId, [data |-> data, fails |-> fails],
                         filename, mimeType, resp)
        /\ RemoteKeeps
        /\ UNCHANGED <<script, runs, assets, uploaded, flowMsg>>

ReqCreateResumableUploadSession ==
    \E appID \in AppIds, fileType \in MimeTypes, resp \in SessionReplies :
        /\ DoCreateResumableUploadSession(appID, 1, fileType, resp)
        /\ RemoteKeeps
        /\ UNCHANGED <<script, runs, assets, uploaded, flowMsg>>

ReqUploadResumableMedia ==
    \E sessionID \in AnySessionIds, fileData \in OnePayload,
       resp \in PushReplies :
        /\ DoUploadResumableMedia(sessionID, fileData, 0, resp)
        /\ RemoteKeeps
        /\ UNCHANGED <<script, runs, assets, uploaded, flowMsg>>

ReqUploadMediaForTemplate ==
    \E c \in OneCaller, appID \in AppIds, fileData \in OnePayload,
       fileType \in MimeTypes, resp \in SessionReplies :
        /\ DoTemplateCreateSession(c, appID, fileData, fileType, resp)
        /\ RemoteKeeps
        /\ UNCHANGED <<script, runs, assets, uploaded, flowMsg>>

ReqUploadMediaForTemplateContinue ==
    \E c \in OneCaller, resp \in PushReplies :
        /\ DoTemplateUpload(c, resp)
        /\ RemoteKeeps
        /\ UNCHANGED <<script, runs, assets, uploaded, flowMsg>>

ReqUploadFlowJSON ==
    \E flowID \in OneFlowId, flowJSON \in OneFlowDoc, resp \in FlowReplies :
        /\ DoUploadFlowJSON(flowID, flowJSON, resp)
        /\ RemoteKeeps
        /\ UNCHANGED <<script, runs, assets, uploaded, flowMsg>>

ReqUploadFlowJSON_JSONBody ==
    \E flowID \in OneFlowId, flowJSON \in OneFlowDoc, resp \in FlowReplies :
        /\ DoUploadFlowJSON_JSONBody(flowID, flowJSON, resp)
        /\ RemoteKeeps
        /\ UNCHANGED <<script, runs, assets, uploaded, flowMsg>>

ReqGetFlowJSON ==
    \E flowID \in OneFlowId, resp \in TextReplies :
        /\ DoGetFlowJSON(flowID, resp)
        /\ RemoteKeeps
        /\ UNCHANGED <<script, runs, assets, uploaded, flowMsg>>

NextRequests ==
    \/ ReqGetMediaUrlById
    \/ ReqDeleteMedia
    \/ ReqUploadMedia
    \/ ReqCreateResumableUploadSession
    \/ ReqUploadResumableMedia
    \/ ReqUploadMediaForTemplate
    \/ ReqUploadMediaForTemplateContinue
    \/ ReqUploadFlowJSON
    \/ ReqUploadFlowJSON_JSONBody
    \/ ReqGetFlowJSON

SpecRequests == Init /\ [][NextRequests]_vars

(***************************************************************************)
(* SpecConcurrent: callers running UploadMediaForTemplate at once on one    *)
(* MediaManager; the two exchanges of a call interleave with those of the   *)
(* other calls in every order.                                              *)
(***************************************************************************)
ConcurrentPushOutcomes ==
    {[fail |-> "do", status |-> 0, body |-> Malformed]}
      \cup {[fail |-> "none", status |-> 200, body |-> Obj("h" :> JStr(h))] :
               h \in Handles}

ConcurrentStart ==
    \E c \in Callers, appID \in AppIds, fileData \in Payloads,
       fileType \in MimeTypes, resp \in SessionOutcomes \cap RemoteSessionReplies :
        /\ DoTemplateCreateSession(c, appID, fileData, fileType, resp)
        /\ RemoteIssues(resp)
        /\ UNCHANGED <<script, runs, assets, uploaded, flowMsg>>

ConcurrentContinue ==
    \E c \in Callers, resp \in ConcurrentPushOutcomes :
        /\ DoTemplateUpload(c, resp)
        /\ RemoteKeeps
        /\ UNCHANGED <<script, runs, assets, uploaded, flowMsg>>

NextConcurrent ==
    \/ ConcurrentStart
    \/ ConcurrentContinue

SpecConcurrent == Init /\ [][NextConcurrent]_vars

(***************************************************************************)
(* SpecPaths: the two upload paths of MediaManager, with a record of the    *)
(* payloads whose transfer was started under each.                          *)
(***************************************************************************)
\* the payload is in transfer under a path once a request for it went out
Started(path, reqs, data) ==
    IF reqs = <<>> THEN uploaded
    ELSE [uploaded EXCEPT ![path] = @ \cup {data}]

PathUploadMedia ==
    \E phoneNumberId \in PhoneIds, data \in Payloads, fails \in BOOLEAN,
       filename \in Filenames, mimeType \in MimeTypes,
       resp \in {TransportFailure, Reply(Obj("id" :> JStr(<<"m", "1">>)))} :
        /\ DoUploadMedia(phoneNumberId, [data |-> data, fails |-> fails],
                         filename, mimeType, resp)
        /\ uploaded' = Started("media",
                               UploadMedia(phoneNumberId,
                                           [data |-> data, fails |-> fails],
                                           filename, mimeType, resp).reqs,
                               data)
        /\ RemoteKeeps
        /\ UNCHANGED <<script, runs, assets, flowMsg>>

PathUploadResumableMedia ==
    \E sessionID \in AnySessionIds, fileData \in Payloads,
       resp \in PushOutcomes :
        /\ DoUploadResumableMedia(sessionID, fileData, 0, resp)
        /\ uploaded' = Started("session",
                               UploadResumableMedia(sessionID, fileData, 0,
                                                    resp).reqs,
                               fileData)
        /\ RemoteKeeps
        /\ UNCHANGED <<script, runs, assets, flowMsg>>

PathUploadMediaForTemplate ==
    \E c \in OneCaller, appID \in AppIds, fileData \in Payloads,
       fileType \in MimeTypes,
       resp \in {TransportFailure, Reply(Obj("id" :> JStr(<<"s", "1">>)))} :
        /\ DoTemplateCreateSession(c, appID, fileData, fileType, resp)
        /\ uploaded' = Started("session",
                               TemplateCreateSession(appID, fileData, fileType,
                                                     resp).reqs,
                               fileData)
        /\ RemoteKeeps
        /\ UNCHANGED <<script, runs, assets, flowMsg>>

PathUploadMediaForTemplateContinue ==
    \E c \in OneCaller, resp \in PushOutcomes :
        /\ DoTemplateUpload(c, resp)
        /\ RemoteKeeps
        /\ UNCHANGED <<script, runs, assets, uploaded, flowMsg>>

NextPaths ==
    \/ PathUploadMedia
    \/ PathUploadResumableMedia
    \/ PathUploadMediaForTemplate
    \/ PathUploadMediaForTemplateContinue

SpecPaths == Init /\ [][NextPaths]_vars

(***************************************************************************)
(* SpecMessage: NewFlowMessage and the setters of the message it returned.  *)
(***************************************************************************)
\* the record of the message: the parameters it was made from, what
\* NewFlowMessage returned, the message as it is now, and the setter called
\* last with the message as it was before that call
Made(params, result) ==
    [made |-> TRUE, params |-> params, err |-> result.err,
     message |-> result.message, setter |-> "none", before |-> result.message]

After(setter, m) ==
    [flowMsg EXCEPT !.setter = setter, !.before = flowMsg.message,
                    !.message = Ptr(m)]

HasMessage == flowMsg.made /\ ~flowMsg.message.nil

CallNewFlowMessage ==
    \E params \in FlowMessageParams :
        /\ flowMsg' = Made(params, NewFlowMessage(params))
        /\ RemoteKeeps
        /\ UNCHANGED <<inflight, last, script, runs, assets, uploaded>>

CallSetHeader ==
    \E text \in Texts :
        /\ HasMessage
        /\ flowMsg' = After("SetHeader", SetHeader(flowMsg.message.v, text))
        /\ RemoteKeeps
        /\ UNCHANGED <<inflight, last, script, runs, assets, uploaded>>

CallSetFooter ==
    \E text \in Texts :
        /\ HasMessage
        /\ flowMsg' = After("SetFooter", SetFooter(flowMsg.message.v, text))
        /\ RemoteKeeps
        /\ UNCHANGED <<inflight, last, script, runs, assets, uploaded>>

CallSetFlowToken ==
    \E token \in Tokens :
        /\ HasMessage
        /\ flowMsg' = After("SetFlowToken", SetFlowToken(flowMsg.message.v, token))
        /\ RemoteKeeps
        /\ UNCHANGED <<inflight, last, script, runs, assets, uploaded>>

CallSetMode ==
    \E mode \in FlowMessageModes :
        /\ HasMessage
        /\ flowMsg' = After("SetMode", SetMode(flowMsg.message.v, mode))
        /\ RemoteKeeps
        /\ UNCHANGED <<inflight, last, script, runs, assets, uploaded>>

CallSetFlowAction ==
    \E action \in FlowActions, payload \in FlowActionPayloads :
        /\ HasMessage
        /\ flowMsg' = After("SetFlowAction",
                            SetFlowAction(flowMsg.message.v, action, payload))
        /\ RemoteKeeps
        /\ UNCHANGED <<inflight, last, script, runs, assets, uploaded>>

NextMessage ==
    \/ CallNewFlowMessage
    \/ CallSetHeader
    \/ CallSetFooter
    \/ CallSetFlowToken
    \/ CallSetMode
    \/ CallSetFlowAction

SpecMessage == Init /\ [][NextMessage]_vars

(***************************************************************************)
(* SpecEquiv: a mock transport that replays the same two responses (one to  *)
(* the session-creation request, one to the push) to a composed             *)
(* UploadMediaForTemplate call and to the manual sequence                   *)
(* CreateResumableUploadSession, UploadResumableMedia at offset 0, both     *)
(* made with the same application id, payload and MIME type.                *)
(***************************************************************************)
Ready == [NoRun EXCEPT !.stage = "ready"]
Created(sessionID) == [NoRun EXCEPT !.stage = "created", !.sessionID = sessionID]
Finished(out) ==
    [stage |-> "done", sessionID |-> <<>>, val |-> out.val, err |-> out.err,
     reqs |-> out.reqs]

InitEquiv ==
    /\ issued = {}
    /\ pushes = [s \in SessionIds |-> [direct |-> 0, composed |-> 0]]
    /\ deleted = {}
    /\ inflight = [c \in Callers |-> Idle]
    /\ last = NoCall
    /\ script \in SessionReplies \X PushReplies
    /\ assets = NoAssets
    /\ uploaded = NoUploads
    /\ flowMsg = NoMessage
    /\ \E appID \in AppIds, fileData \in Payloads, fileType \in MimeTypes :
          runs = [appID |-> appID, fileData |-> fileData, fileType |-> fileType,
                  tmpl |-> Ready, manual |-> Ready]

ComposedStart ==
    /\ runs.tmpl.stage = "ready"
    /\ DoTemplateCreateSession(1, runs.appID, runs.fileData, runs.fileType,
                               script[1])
    /\ runs' = [runs EXCEPT !.tmpl =
                   IF inflight'[1].pc = "idle" THEN Finished(last'.out)
                   ELSE Created(inflight'[1].sessionID)]
    /\ RemoteKeeps
    /\ UNCHANGED <<script, assets, uploaded, flowMsg>>

ComposedContinue ==
    /\ runs.tmpl.stage = "created"
    /\ DoTemplateUpload(1, script[2])
    /\ runs' = [runs EXCEPT !.tmpl = Finished(last'.out)]
    /\ RemoteKeeps
    /\ UNCHANGED <<script, assets, uploaded, flowMsg>>

\* the manual caller stops when the session could not be created
ManualCreate ==
    /\ runs.manual.stage = "ready"
    /\ DoCreateResumableUploadSession(runs.appID, Len(runs.fileData),
                                      runs.fileType, script[1])
    /\ runs' = [runs EXCEPT !.manual =
                   IF IsErr(last'.out.err) THEN Finished(last'.out)
                   ELSE Created(last'.out.val)]
    /\ RemoteKeeps
    /\ UNCHANGED <<script, assets, uploaded, flowMsg>>

ManualPush ==
    /\ runs.manual.stage = "created"
    /\ DoUploadResumableMedia(runs.manual.sessionID, runs.fileData, 0, script[2])
    /\ runs' = [runs EXCEPT !.manual = Finished(last'.out)]
    /\ RemoteKeeps
    /\ UNCHANGED <<script, assets, uploaded, flowMsg>>

NextEquiv ==
    \/ ComposedStart
    \/ ComposedContinue
    \/ ManualCreate
    \/ ManualPush

SpecEquiv == InitEquiv /\ [][NextEquiv]_vars

(***************************************************************************)
(* Properties.                                                              *)
(***************************************************************************)
\* the session-creation response carries a non-empty string id
SessionReplyOk(r) == ~r.err /\ Member(r, "id") # <<>>
\* the push response has a 2xx status and carries a non-empty string h
PushReplyOk(r) ==
    r.fail = "none" /\ r.status \in 200..299 /\ Member(r, "h") # <<>>

\* C1: when the remote answers the session request with an id and the push
\* with 2xx and a handle, CreateResumableUploadSession followed by
\* UploadResumableMedia at offset 0 yields that non-empty handle; and
\* UploadMediaForTemplate, called with the same inputs against the same
\* responses, returns the same handle as the manual sequence (and fails
\* exactly when the manual sequence fails).
C1_SameHandle ==
    /\ (runs.manual.stage = "done" /\ SessionReplyOk(script[1])
            /\ PushReplyOk(script[2]))
         => /\ ~IsErr(runs.manual.err)
            /\ runs.manual.val # <<>>
            /\ runs.manual.val = Member(script[2], "h")
    /\ (runs.manual.stage = "done" /\ runs.tmpl.stage = "done")
         => /\ runs.tmpl.val = runs.manual.val
            /\ IsErr(runs.tmpl.err) <=> IsErr(runs.manual.err)

C1_Witness ==
    /\ runs.manual.stage = "done"
    /\ runs.tmpl.stage = "done"
    /\ runs.fileData # <<>>
    /\ SessionReplyOk(script[1])
    /\ PushReplyOk(script[2])
    /\ runs.tmpl.val \in Handles

\* the response the call that returned last got to its n-th request
Got(n) == last.resps[n]
Failed == IsErr(last.out.err)
Sent == last.out.reqs

\* the number a decimal string denotes
RECURSIVE DecimalNat(_)
DecimalNat(s) ==
    IF Len(s) = 0 THEN 0
    ELSE 10 * DecimalNat(SubSeq(s, 1, Len(s) - 1))
         + (CHOOSE d \in 0..9 : Digits[d + 1] = s[Len(s)])
DecimalValue(s) ==
    IF Len(s) > 0 /\ s[1] = "-" THEN 0 - DecimalNat(Tail(s)) ELSE DecimalNat(s)

\* C2: UploadResumableMedia returns a handle if and only if the push response
\* has a 2xx status and its body decodes to a non-empty h; a non-2xx status
\* yields an error carrying the status code and the response body, also when
\* that body holds a valid handle; a 2xx response whose h is missing or empty
\* yields an error.
C2_HandleIff2xxAndH ==
    last.op = "UploadResumableMedia" =>
        /\ Failed => last.out.val = <<>>
        /\ Sent = <<>> => Failed
        /\ Sent # <<>> =>
            /\ ~Failed <=> PushReplyOk(Got(1))
            /\ ~Failed => last.out.val = Member(Got(1), "h") /\ last.out.val # <<>>
            /\ (Got(1).fail = "none" /\ Got(1).status \notin 200..299) =>
                  /\ last.out.err.kind = "status"
                  /\ last.out.err.quotes
                  /\ last.out.err.status = Got(1).status
                  /\ last.out.err.raw = Got(1).body
            /\ (Got(1).fail = "none" /\ Got(1).status \in 200..299
                    /\ Member(Got(1), "h") = <<>>) => Failed

C2_Witness ==
    /\ last.op = "UploadResumableMedia"
    /\ Sent # <<>>
    /\ Got(1).fail = "none"
    /\ Got(1).status = 300
    /\ Member(Got(1), "h") \in Handles
    /\ Failed
    /\ last.out.err.raw = Got(1).body

\* C3: UploadMediaForTemplate creates the session and then pushes, in that
\* order, and returns the first failure: when the session creation fails no
\* push request is issued and the call returns an error and an empty handle;
\* when the push fails it returns an error and an empty handle; it returns a
\* handle only when both steps succeeded.
C3_FirstFailure ==
    /\ \A c \in Callers :
          inflight[c].pc = "created" =>
              /\ Len(inflight[c].sent) = 1
              /\ ~IsPush(inflight[c].sent[1])
              /\ SessionReplyOk(inflight[c].resps[1])
              /\ inflight[c].sessionID = Member(inflight[c].resps[1], "id")
    /\ last.op = "UploadMediaForTemplate" =>
          /\ Len(Sent) \in 1..2
          /\ Len(last.resps) = Len(Sent)
          /\ ~IsPush(Sent[1])
          /\ Sent[1].method = "POST"
          /\ Sent[1].path = last.args.appID \o <<"/", "u", "p", "l", "o", "a", "d", "s">>
          /\ Len(Sent) = 2 => IsPush(Sent[2])
          /\ ~SessionReplyOk(Got(1)) =>
                /\ Len(Sent) = 1
                /\ Failed
                /\ last.out.val = <<>>
                /\ last.out.err.ctx[1] = "failed to create upload session"
          /\ SessionReplyOk(Got(1)) => Len(Sent) = 2
          /\ (Len(Sent) = 2 /\ ~PushReplyOk(Got(2))) =>
                /\ Failed
                /\ last.out.val = <<>>
                /\ last.out.err.ctx[1] = "failed to upload media"
          /\ ~Failed =>
                /\ SessionReplyOk(Got(1))
                /\ Len(Sent) = 2
                /\ PushReplyOk(Got(2))
                /\ last.out.val = Member(Got(2), "h")
          /\ last.out.val # <<>> => ~Failed

C3_Witness ==
    /\ last.op = "UploadMediaForTemplate"
    /\ Len(Sent) = 2
    /\ SessionReplyOk(Got(1))
    /\ ~PushReplyOk(Got(2))
    /\ Failed
    /\ last.out.val = <<>>

\* C4: CreateResumableUploadSession never returns an empty session id as a
\* success: a transport failure, an undecodable body, and a well-formed body
\* whose id is missing or empty each end the call with an error, after one
\* request and no more.
C4_NoEmptySession ==
    last.op = "CreateResumableUploadSession" =>
        /\ Len(Sent) = 1
        /\ Sent[1].method = "POST"
        /\ ~Failed <=> SessionReplyOk(Got(1))
        /\ ~Failed => last.out.val # <<>> /\ last.out.val = Member(Got(1), "id")
        /\ Failed => last.out.val = <<>>
        /\ Got(1).err => last.out.err.kind = "transport"
        /\ (~Got(1).err /\ Got(1).body.k \in {"malformed", "array"}) =>
              last.out.err.kind = "decode"
        /\ (~Got(1).err /\ Got(1).body.k \in {"object", "null"}
                /\ Got(1).body.obj["id"].t \in {"absent", "null"}) =>
              last.out.err.kind = "missing"
        /\ (~Got(1).err /\ Got(1).body.obj["id"] = JStr(<<>>)) =>
              last.out.err.kind = "missing"

C4_Witness ==
    /\ last.op = "CreateResumableUploadSession"
    /\ ~Got(1).err
    /\ Got(1).body = Obj("id" :> JStr(<<>>))
    /\ Failed
    /\ last.out.val = <<>>

C6_Original ==
    last.op \in {"UploadResumableMedia", "UploadMediaForTemplate"} =>
        \A i \in 1..Len(Sent) :
            IsPush(Sent[i]) => Sent[i].headers.file_offset = <<"0">>

\* C6 as amended: every push issued by UploadMediaForTemplate starts at byte
\* offset 0 and carries the full payload, and the file_length the call
\* declared for the session is the length of that payload; a push issued by
\* UploadResumableMedia carries as file_offset the decimal string of the
\* offset its caller passed, whatever it is.
C6_ComposedPushesAtZero ==
    /\ last.op = "UploadMediaForTemplate" =>
          /\ Sent[1].body.members.file_length = Len(last.args.fileData)
          /\ Sent[1].body.members.file_type = last.args.fileType
          /\ \A i \in 1..Len(Sent) :
                IsPush(Sent[i]) =>
                    /\ Sent[i].headers.file_offset = <<"0">>
                    /\ Sent[i].body.data = last.args.fileData
    /\ last.op = "UploadResumableMedia" =>
          \A i \in 1..Len(Sent) :
              /\ DecimalValue(Sent[i].headers.file_offset) = last.args.fileOffset
              /\ Sent[i].body.data = last.args.fileData

C6_Witness ==
    /\ last.op = "UploadMediaForTemplate"
    /\ Len(Sent) = 2
    /\ last.args.fileData # <<>>
    /\ Sent[2].headers.file_offset = <<"0">>
    /\ Sent[1].body.members.file_length = Len(Sent[2].body.data)

\* C7: GetMediaUrlById returns an error, never an empty string as a success,
\* when the response lacks url (absent or empty); whenever it returns without
\* error the URL it returns is non-empty and is the url member of the
\* response.
C7_NoEmptyUrl ==
    last.op = "GetMediaUrlById" =>
        /\ Len(Sent) = 1
        /\ Sent[1].method = "GET"
        /\ Sent[1].path = last.args.id
        /\ Failed => last.out.val = <<>>
        /\ ~Failed =>
              /\ ~Got(1).err
              /\ last.out.val # <<>>
              /\ last.out.val = Member(Got(1), "url")
        /\ (~Got(1).err /\ Member(Got(1), "url") = <<>>) => Failed
        /\ (~Got(1).err /\ Got(1).body.k \in {"object", "null"}
                /\ Got(1).body.obj["url"].t \in {"absent", "null"}) =>
              last.out.err.kind = "missing"
        /\ (~Got(1).err /\ Got(1).body.obj["url"] = JStr(<<>>)) =>
              last.out.err.kind = "missing"

C7_Witness ==
    /\ last.op = "GetMediaUrlById"
    /\ ~Got(1).err
    /\ Got(1).body = EmptyObject
    /\ Failed
    /\ last.out.err.kind = "missing"
    /\ last.out.val = <<>>

\* C8: DeleteMedia returns an error, not a success, when the well-formed
\* response says success=false or has no success member; it reports success
\* only when the response decodes with success=true.
C8_RejectedDeletion ==
    last.op = "DeleteMedia" =>
        /\ Len(Sent) = 1
        /\ Sent[1].method = "DELETE"
        /\ Sent[1].path = <<"m", "e", "d", "i", "a", "/">> \o last.args.id
        /\ ~Failed <=> ReportsDeletion(Got(1))
        /\ ~Failed <=> last.out.val # <<>>
        /\ (~Got(1).err /\ Got(1).body.k = "object"
                /\ Got(1).body.obj["success"] \in {Absent, JBool(FALSE)}) =>
              last.out.err.kind = "rejected"

C8_Witness ==
    /\ last.op = "DeleteMedia"
    /\ ~Got(1).err
    /\ Got(1).body = Obj("success" :> JBool(FALSE))
    /\ Failed
    /\ last.out.err.kind = "rejected"

\* C9: a DeleteMedia call on a media id that an earlier DeleteMedia call
\* deleted, which the remote answers with success=false or with a transport
\* error, returns an error and never a success report.
C9_SecondDeleteFails ==
    (last.op = "DeleteMedia" /\ last.already) =>
        /\ Failed
        /\ last.out.val = <<>>
        /\ last.out.err.kind \in {"transport", "decode", "rejected"}

C9_Witness ==
    /\ last.op = "DeleteMedia"
    /\ last.already
    /\ last.args.id \in deleted
    /\ Got(1).err
    /\ Failed

\* C10 as stated: every UploadMedia call issues exactly one POST to
\* <phoneNumberId>/media.
C10_Original ==
    last.op = "UploadMedia" =>
        /\ Len(Sent) = 1
        /\ Sent[1].method = "POST"
        /\ Sent[1].path = last.args.phoneNumberId \o <<"/", "m", "e", "d", "i", "a">>

\* C10 as amended: UploadMedia issues exactly one POST to
\* <phoneNumberId>/media, unless reading the file fails, in which case it
\* issues no request and returns an error; it returns the remote-issued media
\* id only when the response decodes to a non-empty id; a transport failure is
\* returned as an error, a malformed body is a decode error, a well-formed
\* body without an id is an error, each with an empty identifier.
C10_OnePostUnlessReadFails ==
    last.op = "UploadMedia" =>
        /\ last.args.file.fails =>
              /\ Sent = <<>>
              /\ Failed
              /\ last.out.err.kind = "read"
        /\ ~last.args.file.fails =>
              /\ Len(Sent) = 1
              /\ Sent[1].via = "RequestMultipart"
              /\ Sent[1].method = "POST"
              /\ Sent[1].path =
                    last.args.phoneNumberId \o <<"/", "m", "e", "d", "i", "a">>
              /\ ~Failed <=> (~Got(1).err /\ Member(Got(1), "id") # <<>>)
              /\ ~Failed => last.out.val = Member(Got(1), "id")
              /\ Got(1).err => last.out.err.kind = "transport"
              /\ (~Got(1).err /\ Got(1).body.k \in {"malformed", "array"}) =>
                    last.out.err.kind = "decode"
              /\ (~Got(1).err /\ Got(1).body.k \in {"object", "null"}
                      /\ Got(1).body.obj["id"].t \in {"absent", "null"}) =>
                    last.out.err.kind = "missing"
        /\ Failed => last.out.val = <<>>
        /\ ~Failed => last.out.val # <<>>

C10_Witness ==
    /\ last.op = "UploadMedia"
    /\ last.args.file.fails
    /\ Sent = <<>>
    /\ Failed

\* the calls of UploadFlowJSON, in either form
IsUploadFlowJSON == last.op \in {"UploadFlowJSON", "UploadFlowJSON_JSONBody"}

\* C11: UploadFlowJSON builds a form of three fields (name = "flow.json",
\* asset_type = "FLOW_JSON" and the document, unchanged, as the file part) and
\* sends it as exactly one POST to <flowID>/assets through RequestMultipart,
\* not as a JSON body.
C11_MultipartForm ==
    IsUploadFlowJSON =>
        /\ Len(Sent) = 1
        /\ Sent[1].method = "POST"
        /\ Sent[1].path = last.args.flowID \o <<"/", "a", "s", "s", "e", "t", "s">>
        /\ Sent[1].via = "RequestMultipart"
        /\ Sent[1].body.enc = "multipart"
        /\ Len(Sent[1].body.parts) = 3
        /\ Sent[1].body.parts[1] = [name |-> "name", value |-> "flow.json"]
        /\ Sent[1].body.parts[2] = [name |-> "asset_type", value |-> "FLOW_JSON"]
        /\ Sent[1].body.parts[3].name = "file"
        /\ Sent[1].body.parts[3].data = last.args.flowJSON

\* the response is a well-formed answer of the assets path: an object whose
\* success member is a boolean, or absent, and whose validation_errors are
\* absent or an array of objects
WellFormedFlowReply(r) ==
    /\ ~r.err
    /\ r.body.k = "object"
    /\ r.body.obj["success"].t \in {"absent", "null", "bool"}
    /\ r.body.errors.t \in {"absent", "null", "array"}
    /\ \A i \in 1..Len(r.body.errors.items) : r.body.errors.items[i].t = "object"

\* C12: when the exchange of UploadFlowJSON succeeds and the response reports
\* success=false, the call returns the decoded result and a nil error, with
\* the success flag false and the validation errors in the order the remote
\* sent them; it never reports success=true unless the response does.
C12_SuccessFromBody ==
    IsUploadFlowJSON =>
        /\ (WellFormedFlowReply(Got(1)) /\ ~ReportsSuccess(Got(1))) =>
              /\ ~Failed
              /\ ~last.out.val.nil
              /\ last.out.val.v.Success = FALSE
              /\ Len(last.out.val.v.ValidationErrors)
                    = Len(Got(1).body.errors.items)
              /\ \A i \in 1..Len(Got(1).body.errors.items) :
                    /\ last.out.val.v.ValidationErrors[i].Error
                          = Got(1).body.errors.items[i].error
                    /\ last.out.val.v.ValidationErrors[i].Message
                          = Got(1).body.errors.items[i].message
                    /\ last.out.val.v.ValidationErrors[i].LineStart
                          = Got(1).body.errors.items[i].line_start
        /\ ~Failed => ~last.out.val.nil
        /\ ~Failed => (last.out.val.v.Success <=> ReportsSuccess(Got(1)))
        /\ Failed => last.out.val.nil

C12_Witness ==
    /\ last.op = "UploadFlowJSON"
    /\ WellFormedFlowReply(Got(1))
    /\ Got(1).body.obj["success"] = JBool(FALSE)
    /\ Len(Got(1).body.errors.items) = 2
    /\ Got(1).body.errors.items[1] # Got(1).body.errors.items[2]
    /\ ~Failed
    /\ ~last.out.val.v.Success
    /\ last.out.val.v.ValidationErrors[1].Error = Got(1).body.errors.items[1].error
    /\ last.out.val.v.ValidationErrors[2].Error = Got(1).body.errors.items[2].error

\* the documents of the model that are JSON texts
SyntacticallyValid(doc) == doc \in {<<"{", "}">>, <<"[", "]">>}
\* the messages of the validation errors the response carries
ReportedMessages(r) ==
    {r.body.errors.items[i].message : i \in 1..Len(r.body.errors.items)}
ReturnedMessages ==
    {last.out.val.v.ValidationErrors[i].Message :
        i \in 1..Len(last.out.val.v.ValidationErrors)}

\* C13 as stated: the result UploadFlowJSON returns for a syntactically
\* invalid document has success false and at least one validation error with
\* a non-empty message.
C13_Original ==
    (IsUploadFlowJSON /\ ~SyntacticallyValid(last.args.flowJSON) /\ ~Failed) =>
        /\ ~last.out.val.v.Success
        /\ \E m \in ReturnedMessages : m # ""

\* C13 as amended: UploadFlowJSON does not inspect the document; it sends a
\* syntactically invalid one like any other and returns what the response
\* says: when the remote answers with success=false and a validation error
\* with a non-empty message the result has success false and carries that
\* message, and when the remote answers success=true or without validation
\* errors, so does the result.
C13_RelaysRemoteVerdict ==
    (IsUploadFlowJSON /\ ~SyntacticallyValid(last.args.flowJSON)) =>
        /\ Len(Sent) = 1
        /\ WellFormedFlowReply(Got(1)) =>
              /\ ~Failed
              /\ last.out.val.v.Success <=> ReportsSuccess(Got(1))
              /\ ReturnedMessages = ReportedMessages(Got(1))
        /\ (WellFormedFlowReply(Got(1)) /\ ~ReportsSuccess(Got(1))
                /\ \E m \in ReportedMessages(Got(1)) : m # "") =>
              /\ ~last.out.val.v.Success
              /\ \E m \in ReturnedMessages : m # ""
        /\ ~WellFormedFlowReply(Got(1)) => Failed \/ Got(1).body.k = "null"

C13_Witness ==
    /\ last.op = "UploadFlowJSON"
    /\ last.args.flowJSON = <<"{">>
    /\ WellFormedFlowReply(Got(1))
    /\ ~ReportsSuccess(Got(1))
    /\ ~Failed
    /\ ~last.out.val.v.Success
    /\ "unexpected end of input" \in ReturnedMessages

\* C14: against a remote that is a faithful echo, GetFlowJSON(flowID) after a
\* successful UploadFlowJSON(flowID, doc) returns doc unchanged; GetFlowJSON
\* is a GET of the same <flowID>/assets path and returns the raw text of the
\* response, unparsed.
C14_RoundTrip ==
    /\ (last.op = "UploadFlowJSON" /\ ~Failed /\ last.out.val.v.Success) =>
          /\ assets[last.args.flowID].stored
          /\ assets[last.args.flowID].given = last.args.flowJSON
          /\ assets[last.args.flowID].doc = last.args.flowJSON
    /\ last.op = "GetFlowJSON" =>
          /\ Len(Sent) = 1
          /\ Sent[1].method = "GET"
          /\ Sent[1].path = last.args.flowID \o <<"/", "a", "s", "s", "e", "t", "s">>
          /\ ~Got(1).err =>
                /\ ~Failed
                /\ last.out.val = Got(1).body
                /\ assets[last.args.flowID].stored
                /\ last.out.val = assets[last.args.flowID].given
          /\ Got(1).err => Failed /\ last.out.val = <<>>

C14_Witness ==
    /\ last.op = "GetFlowJSON"
    /\ ~Failed
    /\ assets[last.args.flowID].stored
    /\ assets[last.args.flowID].given = <<"{">>
    /\ last.out.val = <<"{">>

\* the operations that make one exchange
SingleRequestOps ==
    {"UploadMedia", "GetMediaUrlById", "DeleteMedia",
     "CreateResumableUploadSession", "UploadResumableMedia", "UploadFlowJSON",
     "UploadFlowJSON_JSONBody", "GetFlowJSON"}
CreationCount(reqs) ==
    Cardinality({i \in 1..Len(reqs) : reqs[i].via = "Execute"})

\* C15: no operation retries or falls back: UploadMedia, GetMediaUrlById,
\* DeleteMedia, CreateResumableUploadSession, UploadResumableMedia,
\* UploadFlowJSON and GetFlowJSON issue at most one request per call whatever
\* the outcome; UploadMediaForTemplate issues at most one session-creation
\* request and at most one push; and a push that failed is the last request
\* of its call.
C15_NoRetry ==
    /\ last.op \in SingleRequestOps => Len(Sent) <= 1
    /\ last.op = "UploadMediaForTemplate" =>
          /\ CreationCount(Sent) <= 1
          /\ PushCount(Sent) <= 1
          /\ Len(Sent) = CreationCount(Sent) + PushCount(Sent)
    /\ last.op # "none" => Len(last.resps) = Len(Sent)
    /\ \A i \in 1..Len(Sent) :
          (IsPush(Sent[i]) /\ ~PushReplyOk(Got(i))) => (i = Len(Sent) /\ Failed)
    /\ \A c \in Callers :
          inflight[c].pc = "created" =>
              CreationCount(inflight[c].sent) = 1 /\ Len(inflight[c].sent) = 1

C15_Witness ==
    /\ last.op = "UploadMediaForTemplate"
    /\ Len(Sent) = 2
    /\ IsPush(Sent[2])
    /\ Got(2).fail = "none"
    /\ Got(2).status = 300
    /\ Failed

\* C16: under every interleaving of concurrent UploadMediaForTemplate calls
\* on one MediaManager, each call pushes its own payload to the session id
\* its own session-creation request returned and returns the handle of its
\* own push response; a call in progress holds its own session id and
\* payload, whatever the other calls do.
C16_OwnSessionOwnHandle ==
    /\ \A c \in Callers :
          inflight[c].pc = "created" =>
              /\ inflight[c].sessionID = Member(inflight[c].resps[1], "id")
              /\ inflight[c].sent[1].body.members.file_length
                    = Len(inflight[c].fileData)
              /\ \A d \in Callers \ {c} :
                    inflight[d].pc = "created" =>
                        inflight[d].sessionID # inflight[c].sessionID
    /\ last.op = "UploadMediaForTemplate" =>
          /\ Sent[1].body.members.file_length = Len(last.args.fileData)
          /\ Len(Sent) = 2 =>
                /\ Sent[2].path = RequestPath(Member(Got(1), "id"))
                /\ Sent[2].body.data = last.args.fileData
          /\ ~Failed =>
                /\ Len(Sent) = 2
                /\ last.out.val = Member(Got(2), "h")

C16_Witness ==
    /\ last.op = "UploadMediaForTemplate"
    /\ last.caller = 2
    /\ ~Failed
    /\ inflight[1].pc = "created"
    /\ inflight[1].fileData # last.args.fileData
    /\ inflight[1].sessionID # Member(Got(1), "id")
    /\ Sent[2].body.data = last.args.fileData

\* the requests of the media-id path and those of the session-id path
OnMediaPath(req, args) ==
    /\ req.via = "RequestMultipart"
    /\ req.path = args.phoneNumberId \o <<"/", "m", "e", "d", "i", "a">>
OnSessionPath(req) ==
    \/ req.via = "Execute"
          /\ SubSeq(req.path, Len(req.path) - 7, Len(req.path))
                = <<"/", "u", "p", "l", "o", "a", "d", "s">>
    \/ req.via = "http.Client"

\* C17 as stated: no payload is ever in transfer or completed under both
\* upload paths.
C17_Original == uploaded.media \cap uploaded.session = {}

\* C17 as amended: a call transfers its payload under exactly one of the two
\* upload paths: UploadMedia issues only the multipart POST to
\* <phoneNumberId>/media, and the operations of the resumable protocol issue
\* only the session-creation request to <appID>/uploads and the push to the
\* session id; the manager keeps no record of payloads, so a caller can
\* transfer one payload under both paths.
C17_OnePathPerCall ==
    /\ last.op = "UploadMedia" =>
          /\ \A i \in 1..Len(Sent) :
                OnMediaPath(Sent[i], last.args) /\ ~OnSessionPath(Sent[i])
          /\ Sent # <<>> => last.args.file.data \in uploaded.media
    /\ last.op \in {"UploadResumableMedia", "UploadMediaForTemplate"} =>
          /\ \A i \in 1..Len(Sent) :
                OnSessionPath(Sent[i]) /\ Sent[i].via # "RequestMultipart"
          /\ Sent # <<>> => last.args.fileData \in uploaded.session
    /\ uploaded.media \subseteq Payloads
    /\ uploaded.session \subseteq Payloads

C17_Witness ==
    /\ last.op = "UploadMediaForTemplate"
    /\ ~Failed
    /\ last.args.fileData # <<>>
    /\ last.args.fileData \in uploaded.media
    /\ last.args.fileData \in uploaded.session

\* the message with the fields the setter owns taken from the message before
WithOwnFieldsOf(m, b, setter) ==
    IF setter = "SetHeader" THEN [m EXCEPT !.Header = b.Header]
    ELSE IF setter = "SetFooter" THEN [m EXCEPT !.Footer = b.Footer]
    ELSE IF setter = "SetFlowToken"
    THEN [m EXCEPT !.Action.Parameters.FlowToken = b.Action.Parameters.FlowToken]
    ELSE IF setter = "SetMode"
    THEN [m EXCEPT !.Action.Parameters.Mode = b.Action.Parameters.Mode]
    ELSE IF setter = "SetFlowAction"
    THEN [m EXCEPT
             !.Action.Parameters.FlowAction = b.Action.Parameters.FlowAction,
             !.Action.Parameters.FlowActionPayload =
                 b.Action.Parameters.FlowActionPayload]
    ELSE m

\* C18: NewFlowMessage returns an error when BodyText or FlowCTA is empty or
\* when FlowID and FlowName are both empty; a message it returned carries one
\* flow reference (FlowID when one was given, else FlowName, never both),
\* the action name "flow" and the flow_message_version given, "3" when none
\* was; these fields stay as they are after any sequence of SetHeader,
\* SetFooter, SetFlowToken, SetMode and SetFlowAction calls, each of which
\* changes its own fields only.
C18_OneFlowReference ==
    flowMsg.made =>
        /\ flowMsg.err # "" <=>
              \/ flowMsg.params.BodyText = ""
              \/ flowMsg.params.FlowCTA = ""
              \/ (flowMsg.params.FlowID = "" /\ flowMsg.params.FlowName = "")
        /\ flowMsg.err # "" <=> flowMsg.message.nil
        /\ ~flowMsg.message.nil =>
              LET m == flowMsg.message.v
                  a == m.Action.Parameters
              IN  /\ m.Action.Name = "flow"
                  /\ m.Body.Text = flowMsg.params.BodyText
                  /\ a.FlowCTA = flowMsg.params.FlowCTA
                  /\ a.FlowMessageVersion =
                        (IF flowMsg.params.FlowMessageVersion = "" THEN "3"
                         ELSE flowMsg.params.FlowMessageVersion)
                  /\ (a.FlowID = "") # (a.FlowName = "")
                  /\ flowMsg.params.FlowID # "" =>
                        a.FlowID = flowMsg.params.FlowID
                  /\ flowMsg.params.FlowID = "" =>
                        a.FlowName = flowMsg.params.FlowName
                  /\ WithOwnFieldsOf(m, flowMsg.before.v, flowMsg.setter)
                        = flowMsg.before.v

C18_Witness ==
    /\ flowMsg.made
    /\ ~flowMsg.message.nil
    /\ flowMsg.params.FlowID # ""
    /\ flowMsg.params.FlowName # ""
    /\ flowMsg.params.FlowMessageVersion = ""
    /\ flowMsg.setter = "SetFlowAction"
    /\ ~flowMsg.message.v.Header.nil
    /\ ~flowMsg.message.v.Footer.nil
    /\ flowMsg.message.v.Action.Parameters.FlowToken # ""
    /\ flowMsg.message.v.Action.Parameters.Mode = "draft"
    /\ flowMsg.message.v.Action.Parameters.FlowID = flowMsg.params.FlowID
    /\ flowMsg.message.v.Action.Parameters.FlowName = ""
    /\ flowMsg.message.v.Action.Parameters.FlowMessageVersion = "3"
====
